---- MODULE Spec2Model ----
(***************************************************************************)
(* A model of environ/synth.py (SynthEnvironment): the training phases and *)
(* the adversarial loop, the discriminator's loss mixture, the rollout     *)
(* reward estimator, the oracle constructor, the held-out accuracy and the *)
(* cycling batch iterator.                                                 *)
(*                                                                         *)
(* Numbers.  Learning rates, loss weights and probabilities are reals in   *)
(* the program.  They are kept exact here as integers in a fixed unit:     *)
(*   lr       in units of lr_g * 100^(-MaxAdvCalls)                        *)
(*   weights  in units of 1 / WUnit                                        *)
(*   log-probabilities in units of 1 / LogDen, Exp as 2^(x / LogDen)       *)
(*   interpolated linearly between whole powers (strictly increasing).     *)
(*                                                                         *)
(* Exceptions.  A phase that raises hands control back to its caller with  *)
(* the exception's name in `status`; the environment object stays as the   *)
(* phase left it and its methods can be invoked again.                     *)
(***************************************************************************)
EXTENDS Integers, Sequences, FiniteSets, TLC

----------------------------------------------------------------------------
(* Bounds of the model *)

MaxBatch == 2
MaxRollouts == 2
MaxGIters == 2
MaxIters == 2
MaxAdvCalls == 2
MaxAvail == 9
MaxLoader == 3
MaxSeqLen == 3
MaxRng == 0
MaxSeed == 2
MaxDim == 2
MaxOracleCalls == 3
MaxSamples == 6
MaxAcc == 2
MaxData == 3
MaxDsBatch == 3

(* Program constants *)

MaxRbufBatches == 4
MaxHistory == 100

----------------------------------------------------------------------------
(* Arithmetic helpers *)

Min(a, b) == IF a <= b THEN a ELSE b

Max(a, b) == IF a >= b THEN a ELSE b

RECURSIVE Pow(_, _)
Pow(b, e) == IF e = 0 THEN 1 ELSE b * Pow(b, e - 1)

RECURSIVE Gcd(_, _)
Gcd(a, b) == IF b = 0 THEN a ELSE Gcd(b, a % b)

RECURSIVE LcmUpTo(_)
LcmUpTo(n) == IF n <= 1 THEN 1 ELSE (LcmUpTo(n - 1) * n) \div Gcd(LcmUpTo(n - 1), n)

RECURSIVE Count(_, _)
Count(s, e) ==
    IF s = <<>> THEN 0 ELSE (IF Head(s) = e THEN 1 ELSE 0) + Count(Tail(s), e)

IsPrefix(s, t) == Len(s) <= Len(t) /\ SubSeq(t, 1, Len(s)) = s

----------------------------------------------------------------------------
(* The environment: options, optimizer, phases *)

VARIABLES
    opts,         \* the options the phases read
    lr,           \* optim_g.param_groups[0]['lr']
    adv_calls,    \* invocations of train_adv so far
    ran,          \* the phases invoked so far
    phase,        \* the phase running now, or "none"
    pc,           \* the position inside the running phase
    status,       \* how the last phase ended: "returned" or the exception
    n_iters,      \* the running phase's iteration count option
    i,            \* the running phase's loop variable (epoch or i)
    events,       \* what the current train_adv iteration has done, in order
    lr_entry,     \* lr when the running train_adv was entered
    last_g_step,  \* phase and lr of the latest optim_g.step()
    rbuf,         \* sequences held by train_adv's replay buffer
    rbuf_it,      \* replay_buffer_iter: "None" or "iter"
    advd          \* the locals of _train_adv_d

VARIABLES
    gq,           \* _get_advantages and _get_qs: inputs, locals, result
    orc,          \* the options namespace, the global RNG and the oracles built
    tacc,         \* _compute_test_acc: inputs and result
    dsit          \* _ds_iter: the generator's locals and what it yielded

subVars == <<gq, orc, tacc, dsit>>

envVars == <<opts, lr, adv_calls, ran, phase, pc, status, n_iters, i, events,
             lr_entry, last_g_step, rbuf, rbuf_it, advd>>

\* A part of the program that is not running.
Idle == [pc |-> "idle"]

SubIdle == gq = Idle /\ orc = Idle /\ tacc = Idle /\ dsit = Idle

Phases == {"train_hasher", "pretrain_g", "pretrain_d", "train_adv"}

Errors == {"NameError", "UnboundLocalError", "ZeroDivisionError",
           "RuntimeError", "StopIteration", "KeyError"}

\* lr_g, the learning rate optim_g is built with, in lr units.
LrInit == Pow(100, MaxAdvCalls)

\* One weight unit is 1/WUnit: every weight of _train_adv_d is a whole number of them.
WUnit == 4 * LcmUpTo(MaxRbufBatches)

REAL_W == WUnit \div 2

GEN_W == WUnit - REAL_W

\* RBUF_W = 0.5 as a fraction num/den.
RBUF_W == [num |-> 1, den |-> 2]

Unbound == "unbound"

AdvdNone ==
    [n_rbuf_batches |-> Unbound, cur_w |-> Unbound, rbuf_batch_w |-> Unbound,
     w_loss |-> 0, w_ent |-> 0, w_real |-> 0, w_gen |-> 0, w_rbuf |-> <<>>,
     drawn |-> 0]

----------------------------------------------------------------------------
(* Tensor shapes *)

\* x.repeat(r, 1) of a tensor with `rows` rows has r * rows rows.
RepeatRows(r, rows) == r * rows

\* x[:k] of a tensor with `rows` rows.
SliceRows(rows, k) == Min(rows, k)

\* dst[...] = src: a row of dstLen entries takes srcLen values when the
\* lengths agree or src broadcasts from a single value.
AssignOk(dstLen, srcLen) == srcLen = dstLen \/ srcLen = 1

\* Whether _get_qs can fill qs[-1] for a batch repeated num_rollouts times.
QsLastOk(num_rollouts, batch_size) ==
    AssignOk(batch_size, SliceRows(RepeatRows(num_rollouts, batch_size), batch_size))

----------------------------------------------------------------------------
(* Name resolution in _compute_test_acc *)

ModuleGlobals ==
    {"logging", "time", "torch", "nn", "Variable", "nnf", "common",
     "LABEL_GEN", "LABEL_REAL", "dataset", "model", "Environment",
     "SynthEnvironment"}

TestAccLocals ==
    {"self", "num_samples", "num_test_batches", "oracle_test_loader",
     "acc_oracle", "i", "batch", "oracle_test_toks", "acc_gen", "gen_seqs", "_"}

Builtins == {"max", "len", "enumerate", "next", "range", "sum", "iter", "min"}

NameDefined(name) == name \in TestAccLocals \cup ModuleGlobals \cup Builtins

\* The loader's name as line 129 reads it.
TestLoaderName == "test_loader"

NumTestBatches(num_samples, n_init_toks) == Max(num_samples \div n_init_toks, 1)

\* The enumerate loop of lines 125-130 from index j on: k batches in the
\* loader, acc the accuracy summed so far, a the accuracy of one batch.
\* `i` is the loop variable as the loop leaves it, bound once a batch was read.
RECURSIVE OracleLoop(_, _, _, _, _, _)
OracleLoop(j, k, ntb, acc, scored, a) ==
    IF j = k
    THEN [status |-> "ok", bound |-> k # 0, i |-> k - 1,
          acc |-> acc, scored |-> scored]
    ELSE IF j = ntb
    THEN [status |-> "ok", bound |-> TRUE, i |-> j, acc |-> acc, scored |-> scored]
    ELSE IF ~NameDefined(TestLoaderName)
    THEN [status |-> "NameError", bound |-> TRUE, i |-> j, acc |-> acc,
          scored |-> scored]
    ELSE OracleLoop(j + 1, k, ntb, acc + a, scored + 1, a)

\* _compute_test_acc up to `acc_oracle /= i` (line 131): the quotient is kept
\* as the fraction num/den.
ComputeTestAcc(k, ntb, a) ==
    LET l == OracleLoop(0, k, ntb, 0, 0, a) IN
    IF l.status # "ok"
    THEN [status |-> l.status, scored |-> l.scored, acc |-> l.acc, num |-> 0, den |-> 0]
    ELSE IF ~l.bound
    THEN [status |-> "UnboundLocalError", scored |-> l.scored, acc |-> l.acc,
          num |-> 0, den |-> 0]
    ELSE IF l.i = 0
    THEN [status |-> "ZeroDivisionError", scored |-> l.scored, acc |-> l.acc,
          num |-> 0, den |-> 0]
    ELSE [status |-> "ok", scored |-> l.scored, acc |-> l.acc, num |-> l.acc,
          den |-> l.i]

\* _compute_test_acc as the phases call it: num_samples = 256, and a loader
\* over the oracle test set that supplies k batches.
DefaultNumSamples == 256

PhaseTestAcc(k, batch_size) ==
    ComputeTestAcc(k, NumTestBatches(DefaultNumSamples, batch_size), 1)

----------------------------------------------------------------------------
(* Replay buffer *)

\* add_samples of n sequences to a buffer holding `held`.
AddSamples(held, n) == Min(held + n, MaxHistory)

\* len(replay_buffer_iter): the sequences the buffer can supply.
RbufLen(held) == held

\* Whether next(replay_buffer_iter) can supply one more batch after `drawn`.
RbufCanDraw(held, batch_size, drawn) == (drawn + 1) * batch_size <= held

\* A faulty variant: sequences counted as batches.
NRbufBatchesUndivided(avail, batch_size) == Min(avail, MaxRbufBatches)

\* n_rbuf_batches (line 382).
NRbufBatches(avail, batch_size) == Min(avail \div batch_size, MaxRbufBatches)

----------------------------------------------------------------------------
(* Initial state *)

OptsSet ==
    [batch_size : 1..MaxBatch, grad_reg : {0, 1}, num_rollouts : 0..MaxRollouts,
     adv_g_iters : 0..MaxGIters]

EnvIdle ==
    /\ lr = LrInit
    /\ adv_calls = 0
    /\ ran = {}
    /\ phase = "none"
    /\ pc = "none"
    /\ status = "none"
    /\ n_iters = 0
    /\ i = 0
    /\ events = <<>>
    /\ lr_entry = LrInit
    /\ last_g_step = [phase |-> "none", lr |-> 0]
    /\ rbuf = 0
    /\ rbuf_it = "None"
    /\ advd = AdvdNone

----------------------------------------------------------------------------
(* Phases with an epoch loop *)

Raise(e) ==
    /\ phase' = "none"
    /\ pc' = "none"
    /\ status' = e

\* A phase is entered: n is its iteration count option (train_hasher_epochs,
\* pretrain_g_epochs, pretrain_d_epochs, adv_train_iters) as the call reads it.
Invoke(p, n) ==
    /\ phase = "none"
    /\ phase' = p
    /\ n_iters' = n
    /\ i' = 1
    /\ pc' = "loop"
    /\ status' = "running"
    /\ ran' = ran \cup {p}

TrainHasher ==
    /\ \E n \in 0..MaxIters : Invoke("train_hasher", n)
    /\ UNCHANGED <<opts, lr, adv_calls, events, lr_entry, last_g_step, rbuf,
                   rbuf_it, advd>>
    /\ UNCHANGED subVars

HasherEpoch ==
    /\ phase = "train_hasher" /\ pc = "loop" /\ i <= n_iters
    /\ i' = i + 1
    /\ UNCHANGED <<opts, lr, adv_calls, ran, phase, pc, status, n_iters, events,
                   lr_entry, last_g_step, rbuf, rbuf_it, advd>>
    /\ UNCHANGED subVars

PretrainG ==
    /\ \E n \in 0..MaxIters : Invoke("pretrain_g", n)
    /\ UNCHANGED <<opts, lr, adv_calls, events, lr_entry, last_g_step, rbuf,
                   rbuf_it, advd>>
    /\ UNCHANGED subVars

PretrainGEpoch ==
    /\ phase = "pretrain_g" /\ pc = "loop" /\ i <= n_iters
    /\ last_g_step' = [phase |-> "pretrain_g", lr |-> lr]
    /\ i' = i + 1
    /\ UNCHANGED <<opts, lr, adv_calls, ran, phase, pc, status, n_iters, events,
                   lr_entry, rbuf, rbuf_it, advd>>
    /\ UNCHANGED subVars

PretrainD ==
    /\ \E n \in 0..MaxIters : Invoke("pretrain_d", n)
    /\ UNCHANGED <<opts, lr, adv_calls, events, lr_entry, last_g_step, rbuf,
                   rbuf_it, advd>>
    /\ UNCHANGED subVars

PretrainDEpoch ==
    /\ phase = "pretrain_d" /\ pc = "loop" /\ i <= n_iters
    /\ \E k \in 0..MaxLoader :
         LET acc == PhaseTestAcc(k, opts.batch_size) IN
           IF acc.status = "ok"
           THEN /\ i' = i + 1
                /\ UNCHANGED <<phase, pc, status>>
           ELSE /\ Raise(acc.status)
                /\ UNCHANGED i
    /\ UNCHANGED <<opts, lr, adv_calls, ran, n_iters, events, lr_entry,
                   last_g_step, rbuf, rbuf_it, advd>>
    /\ UNCHANGED subVars

PhaseReturn ==
    /\ phase # "none" /\ pc = "loop" /\ i > n_iters
    /\ phase' = "none"
    /\ pc' = "none"
    /\ status' = "returned"
    /\ UNCHANGED <<opts, lr, adv_calls, ran, n_iters, i, events, lr_entry,
                   last_g_step, rbuf, rbuf_it, advd>>
    /\ UNCHANGED subVars

----------------------------------------------------------------------------
(* train_adv *)

\* A faulty variant: the rate is left as it is.
ReduceLrNever(l) == l

\* lr *= 0.01 (line 292).
ReduceLr(l) == l \div 100

\* `if not self.opts.grad_reg` (line 308): step G before the D loss.
StepsEarly(grad_reg) == grad_reg = 0

\* A faulty variant: the late generator step whatever grad_reg is.
StepsLateAlways(grad_reg) == TRUE

\* `if self.opts.grad_reg` (line 324): backpropagate the penalty, then step G.
StepsLate(grad_reg) == grad_reg # 0

Iteration(next_pc, ev) ==
    /\ pc' = next_pc
    /\ events' = events \o ev

TrainAdv ==
    /\ adv_calls < MaxAdvCalls
    /\ \E n \in 0..MaxIters : Invoke("train_adv", n)
    /\ lr_entry' = lr
    /\ lr' = ReduceLr(lr)
    /\ adv_calls' = adv_calls + 1
    /\ rbuf' = 0
    /\ rbuf_it' = "None"
    /\ events' = <<>>
    /\ advd' = AdvdNone
    /\ UNCHANGED <<opts, last_g_step>>
    /\ UNCHANGED subVars

\* The head of the loop (line 302) and _train_adv_g (line 305).
AdvG ==
    /\ phase = "train_adv" /\ pc = "loop" /\ i <= n_iters
    /\ events' = <<>>
    /\ advd' = AdvdNone
    /\ IF opts.adv_g_iters = 0
       THEN /\ Raise("ZeroDivisionError")
            /\ UNCHANGED rbuf
       ELSE /\ rbuf' = AddSamples(rbuf, opts.batch_size)
            /\ IF QsLastOk(opts.num_rollouts, opts.batch_size)
               THEN /\ pc' = "g_backward"
                    /\ UNCHANGED <<phase, status>>
               ELSE Raise("RuntimeError")
    /\ UNCHANGED <<opts, lr, adv_calls, ran, n_iters, i, lr_entry, last_g_step,
                   rbuf_it>>
    /\ UNCHANGED subVars

\* optim_g.zero_grad(); loss_g.backward(...) (lines 306-307).
GBackward ==
    /\ phase = "train_adv" /\ pc = "g_backward"
    /\ Iteration("g_step", <<"g_backward">>)
    /\ UNCHANGED <<opts, lr, adv_calls, ran, phase, status, n_iters, i, lr_entry,
                   last_g_step, rbuf, rbuf_it, advd>>
    /\ UNCHANGED subVars

\* Lines 308-309.
GStepEarly ==
    /\ phase = "train_adv" /\ pc = "g_step"
    /\ IF StepsEarly(opts.grad_reg)
       THEN /\ Iteration("rbuf_iter", <<"g_step">>)
            /\ last_g_step' = [phase |-> "train_adv", lr |-> lr]
       ELSE /\ Iteration("rbuf_iter", <<>>)
            /\ UNCHANGED last_g_step
    /\ UNCHANGED <<opts, lr, adv_calls, ran, phase, status, n_iters, i, lr_entry,
                   rbuf, rbuf_it, advd>>
    /\ UNCHANGED subVars

\* Lines 311-312.
RbufIter ==
    /\ phase = "train_adv" /\ pc = "rbuf_iter"
    /\ rbuf_it' = IF rbuf_it = "None" THEN "iter" ELSE rbuf_it
    /\ pc' = "adv_d"
    /\ UNCHANGED <<opts, lr, adv_calls, ran, phase, status, n_iters, i, events,
                   lr_entry, last_g_step, rbuf, advd>>
    /\ UNCHANGED subVars

----------------------------------------------------------------------------
(* _train_adv_d *)

\* cur_w: GEN_W, times RBUF_W when replay batches are drawn (lines 383-385).
CurW(n) == IF n # 0 THEN (GEN_W * RBUF_W.num) \div RBUF_W.den ELSE GEN_W

\* A faulty variant: the replay weight not shared among the n batches.
RbufBatchWUndivided(n) == (GEN_W * RBUF_W.num) \div RBUF_W.den

\* rbuf_batch_w = GEN_W * RBUF_W / n_rbuf_batches (line 386).
RbufBatchW(n) == (GEN_W * RBUF_W.num) \div (RBUF_W.den * n)

\* Lines 374-386: the real-data loss and the weights.
AdvDBegin ==
    /\ phase = "train_adv" /\ pc = "adv_d"
    /\ LET n == NRbufBatches(RbufLen(rbuf), opts.batch_size) IN
         advd' = [n_rbuf_batches |-> n,
                  cur_w |-> CurW(n),
                  rbuf_batch_w |-> IF n # 0 THEN RbufBatchW(n) ELSE Unbound,
                  w_loss |-> REAL_W, w_ent |-> REAL_W, w_real |-> REAL_W,
                  w_gen |-> 0, w_rbuf |-> <<>>, drawn |-> 0]
    /\ pc' = "adv_d_gen"
    /\ UNCHANGED <<opts, lr, adv_calls, ran, phase, status, n_iters, i, events,
                   lr_entry, last_g_step, rbuf, rbuf_it>>
    /\ UNCHANGED subVars

\* Lines 388-393: the loss on the freshly generated batch.
AdvDGen ==
    /\ phase = "train_adv" /\ pc = "adv_d_gen"
    /\ advd' = [advd EXCEPT !.w_loss = @ + advd.cur_w,
                            !.w_ent = @ + advd.cur_w,
                            !.w_gen = advd.cur_w]
    /\ pc' = "adv_d_rbuf"
    /\ UNCHANGED <<opts, lr, adv_calls, ran, phase, status, n_iters, i, events,
                   lr_entry, last_g_step, rbuf, rbuf_it>>
    /\ UNCHANGED subVars

\* One round of the loop of lines 395-399.
AdvDRbuf ==
    /\ phase = "train_adv" /\ pc = "adv_d_rbuf"
    /\ advd.drawn < advd.n_rbuf_batches
    /\ IF RbufCanDraw(RbufLen(rbuf), opts.batch_size, advd.drawn)
       THEN /\ advd' = [advd EXCEPT !.w_loss = @ + advd.rbuf_batch_w,
                                    !.w_ent = @ + advd.rbuf_batch_w,
                                    !.w_rbuf = Append(@, advd.rbuf_batch_w),
                                    !.drawn = @ + 1]
            /\ UNCHANGED <<phase, pc, status>>
       ELSE /\ Raise("StopIteration")
            /\ UNCHANGED advd
    /\ UNCHANGED <<opts, lr, adv_calls, ran, n_iters, i, events, lr_entry,
                   last_g_step, rbuf, rbuf_it>>
    /\ UNCHANGED subVars

\* Line 401, back in train_adv with loss_d (line 314).
AdvDReturn ==
    /\ phase = "train_adv" /\ pc = "adv_d_rbuf"
    /\ advd.drawn = advd.n_rbuf_batches
    /\ Iteration("d_backward", <<"d_loss">>)
    /\ UNCHANGED <<opts, lr, adv_calls, ran, phase, status, n_iters, i, lr_entry,
                   last_g_step, rbuf, rbuf_it, advd>>
    /\ UNCHANGED subVars

----------------------------------------------------------------------------
(* train_adv, after the discriminator's loss *)

\* optim_d.zero_grad(); loss_d.backward(...) (lines 316-317).
DBackward ==
    /\ phase = "train_adv" /\ pc = "d_backward"
    /\ Iteration("gnorm", <<"d_backward">>)
    /\ UNCHANGED <<opts, lr, adv_calls, ran, phase, status, n_iters, i, lr_entry,
                   last_g_step, rbuf, rbuf_it, advd>>
    /\ UNCHANGED subVars

\* Lines 319-321: the gradient norms and the penalty.
GradNorm ==
    /\ phase = "train_adv" /\ pc = "gnorm"
    /\ Iteration("penalty", <<"gnorm">>)
    /\ UNCHANGED <<opts, lr, adv_calls, ran, phase, status, n_iters, i, lr_entry,
                   last_g_step, rbuf, rbuf_it, advd>>
    /\ UNCHANGED subVars

\* Lines 324-326.
PenaltyStep ==
    /\ phase = "train_adv" /\ pc = "penalty"
    /\ IF StepsLate(opts.grad_reg)
       THEN /\ Iteration("d_step", <<"gnorm_backward", "g_step">>)
            /\ last_g_step' = [phase |-> "train_adv", lr |-> lr]
       ELSE /\ Iteration("d_step", <<>>)
            /\ UNCHANGED last_g_step
    /\ UNCHANGED <<opts, lr, adv_calls, ran, phase, status, n_iters, i, lr_entry,
                   rbuf, rbuf_it, advd>>
    /\ UNCHANGED subVars

\* optim_d.step() (line 327).
DStep ==
    /\ phase = "train_adv" /\ pc = "d_step"
    /\ Iteration("test_acc", <<"d_step">>)
    /\ UNCHANGED <<opts, lr, adv_calls, ran, phase, status, n_iters, i, lr_entry,
                   last_g_step, rbuf, rbuf_it, advd>>
    /\ UNCHANGED subVars

\* Lines 329-336: the held-out metrics, the log line, the next iteration.
EndIter ==
    /\ phase = "train_adv" /\ pc = "test_acc"
    /\ \E k \in 0..MaxLoader :
         LET acc == PhaseTestAcc(k, opts.batch_size) IN
           IF acc.status = "ok"
           THEN /\ i' = i + 1
                /\ pc' = "loop"
                /\ UNCHANGED <<phase, status>>
           ELSE /\ Raise(acc.status)
                /\ UNCHANGED i
    /\ UNCHANGED <<opts, lr, adv_calls, ran, n_iters, events, lr_entry,
                   last_g_step, rbuf, rbuf_it, advd>>
    /\ UNCHANGED subVars

----------------------------------------------------------------------------
(* The environment's specification: any phase, in any order *)

Init ==
    /\ opts \in OptsSet
    /\ EnvIdle
    /\ SubIdle

Next ==
    \/ TrainHasher \/ HasherEpoch
    \/ PretrainG \/ PretrainGEpoch
    \/ PretrainD \/ PretrainDEpoch
    \/ PhaseReturn
    \/ TrainAdv \/ AdvG \/ GBackward \/ GStepEarly \/ RbufIter
    \/ AdvDBegin \/ AdvDGen \/ AdvDRbuf \/ AdvDReturn
    \/ DBackward \/ GradNorm \/ PenaltyStep \/ DStep \/ EndIter

vars == <<envVars, subVars>>

Spec == Init /\ [][Next]_vars

----------------------------------------------------------------------------
(* _train_adv_d on its own: any replay buffer content, any batch size *)

\* _train_adv_d is entered from line 314 of an iteration whose generator step
\* went through; what the replay buffer holds is the function's input.
InitAdvD ==
    /\ opts \in {o \in OptsSet : o.adv_g_iters >= 1
                                  /\ QsLastOk(o.num_rollouts, o.batch_size)}
    /\ lr = ReduceLr(LrInit)
    /\ adv_calls = 1
    /\ ran = {"train_adv"}
    /\ phase = "train_adv"
    /\ pc = "adv_d"
    /\ status = "running"
    /\ n_iters = 1
    /\ i = 1
    /\ events = IF StepsEarly(opts.grad_reg) THEN <<"g_backward", "g_step">>
                                             ELSE <<"g_backward">>
    /\ lr_entry = LrInit
    /\ last_g_step = IF StepsEarly(opts.grad_reg)
                     THEN [phase |-> "train_adv", lr |-> ReduceLr(LrInit)]
                     ELSE [phase |-> "none", lr |-> 0]
    /\ rbuf \in 0..MaxAvail
    /\ rbuf_it = "iter"
    /\ advd = AdvdNone
    /\ SubIdle

NextAdvD == AdvDBegin \/ AdvDGen \/ AdvDRbuf \/ AdvDReturn

SpecAdvD == InitAdvD /\ [][NextAdvD]_vars

----------------------------------------------------------------------------
(* Claims about the adversarial loop *)

\* The optimizer events of one iteration, lines 306-327, in order.
ExpectedEvents(grad_reg) ==
    IF grad_reg = 0
    THEN <<"g_backward", "g_step", "d_loss", "d_backward", "gnorm", "d_step">>
    ELSE <<"g_backward", "d_loss", "d_backward", "gnorm", "gnorm_backward",
           "g_step", "d_step">>

\* C1: in an iteration of train_adv the generator optimizer and the
\* discriminator optimizer each step once, never twice. With grad_reg = 0 the
\* generator steps right after loss_g.backward and before the discriminator's
\* loss; with grad_reg # 0 it does not step there and steps only after the
\* penalty is backpropagated, before the discriminator steps. An iteration
\* that has passed line 327 has done exactly these events in this order.
C1_OneStepEachInOrder ==
    phase = "train_adv" =>
        /\ Count(events, "g_step") <= 1
        /\ Count(events, "d_step") <= 1
        /\ IsPrefix(events, ExpectedEvents(opts.grad_reg))
        /\ pc = "test_acc" =>
              /\ events = ExpectedEvents(opts.grad_reg)
              /\ Count(events, "g_step") = 1
              /\ Count(events, "d_step") = 1

C1_Witness ==
    /\ phase = "train_adv" /\ pc = "test_acc"
    /\ opts.grad_reg # 0
    /\ events = <<"g_backward", "d_loss", "d_backward", "gnorm", "gnorm_backward",
                  "g_step", "d_step">>

\* C2: a phase invoked with a positive iteration count runs to completion
\* and never ends in an exception, whatever phases ran before it.
C2_PhasesComplete == ~(status \in Errors /\ n_iters >= 1)

\* C5: in every discriminator step the number of replay batches is
\* min(available // batch_size, 4): at most 4, at most what the buffer holds,
\* and no draw of a replay batch fails.
C5_ReplayDraws ==
    /\ status # "StopIteration"
    /\ (phase = "train_adv" /\ pc \in {"adv_d_gen", "adv_d_rbuf", "d_backward"}) =>
          /\ advd.n_rbuf_batches = Min(rbuf \div opts.batch_size, 4)
          /\ advd.n_rbuf_batches <= 4
          /\ advd.n_rbuf_batches * opts.batch_size <= rbuf
          /\ advd.drawn <= advd.n_rbuf_batches
          /\ pc = "d_backward" => advd.drawn = advd.n_rbuf_batches

C5_Witness ==
    /\ phase = "train_adv" /\ pc = "d_backward"
    /\ advd.n_rbuf_batches = 4 /\ advd.drawn = 4
    /\ rbuf > 4 * opts.batch_size

\* C6: the loss weights of _train_adv_d are 0.5 for the real data, 0.5 for the
\* generated batch when n = 0 and 0.25 when n > 0, and 0.25 / n for each of
\* the n replay batches; on the loss and on the entropy they sum to 1.
C6_WeightsSumToOne ==
    (phase = "train_adv" /\ pc \in {"adv_d_gen", "adv_d_rbuf", "d_backward"}) =>
        LET n == advd.n_rbuf_batches IN
        /\ n \in 0..4
        /\ 2 * advd.w_real = WUnit
        /\ pc # "adv_d_gen" =>
              /\ n = 0 => 2 * advd.w_gen = WUnit
              /\ n > 0 => 4 * advd.w_gen = WUnit
        /\ \A j \in 1..Len(advd.w_rbuf) : 4 * n * advd.w_rbuf[j] = WUnit
        /\ pc = "d_backward" =>
              /\ Len(advd.w_rbuf) = n
              /\ advd.w_loss = WUnit
              /\ advd.w_ent = WUnit

C6_Witness ==
    /\ phase = "train_adv" /\ pc = "d_backward"
    /\ advd.n_rbuf_batches = 3
    /\ Len(advd.w_rbuf) = 3
    /\ advd.w_loss = WUnit

\* C7 as stated: every adversarial generator update uses one hundredth of
\* the pretraining learning rate lr_g.
C7_HundredthOfPretraining ==
    last_g_step.phase = "train_adv" => last_g_step.lr * 100 = LrInit

\* C7 as amended: train_adv divides the learning rate by 100 once each time
\* it is invoked and nothing else changes it, so every generator update of
\* an invocation uses one hundredth of the rate the invocation found, which
\* is lr_g * 0.01^k in the k-th invocation.
C7_HundredthPerInvocation ==
    /\ lr * Pow(100, adv_calls) = LrInit
    /\ phase = "train_adv" => lr * 100 = lr_entry
    /\ (phase = "train_adv" /\ Count(events, "g_step") > 0) =>
          last_g_step = [phase |-> "train_adv", lr |-> lr]

C7_Witness ==
    /\ phase = "train_adv" /\ adv_calls = 2
    /\ Count(events, "g_step") = 1
    /\ "pretrain_g" \in ran
    /\ last_g_step.lr * 100 * 100 = LrInit

----------------------------------------------------------------------------
(* The generator, the discriminator and the random generator as the reward
   estimator uses them *)

Vocab == {0, 1}

VocabSize == Cardinality(Vocab)

\* Every log-probability is a whole number of 1/LogDen, so that the mean over
\* num_rollouts rows is one too.
LogDen == LcmUpTo(MaxRollouts)

LogLevels == 3

\* exp, scaled to whole numbers: 2^(x / LogDen) at the whole multiples of
\* LogDen and linear between them, so strictly increasing and convex; Exp(0)
\* is the largest value.
Exp(x) ==
    LET y == x + (LogLevels - 1) * LogDen IN
    Pow(2, y \div LogDen) * (LogDen + (y % LogDen))

RECURSIVE WeightedSum(_, _)
WeightedSum(seq, k) ==
    IF seq = <<>> THEN 0 ELSE k * Head(seq) + WeightedSum(Tail(seq), k + 1)

\* self.d(seqs)[:, LABEL_REAL] for one row: a log-probability that depends on
\* every token and its place.
DLogReal(seq) == -LogDen * ((1 + WeightedSum(seq, 1)) % LogLevels)

RngMod == MaxRng + 2

\* The random generator after one draw.
NextRng(r) == (3 * r + 1) % RngMod

RECURSIVE RngAfter(_, _)
RngAfter(r, k) == IF k = 0 THEN r ELSE RngAfter(NextRng(r), k - 1)

\* The token sampled for `row` from random state r.
Sample(r, row) == (r + row) % VocabSize

\* g_ro.rollout(state, length, return_first_state=True) on `rows` rows from
\* random state r: `length` columns of sampled tokens, and the random state
\* as the first step left it.
Rollout(r, rows, length) ==
    [ro_seqs |-> [k \in 1..length |-> [row \in 1..rows |-> Sample(RngAfter(r, k - 1), row)]],
     ro_rng |-> IF length = 0 THEN r ELSE NextRng(r)]

----------------------------------------------------------------------------
(* _get_advantages and _get_qs *)

\* x.repeat(r, 1): the rows of x, r times over.
RECURSIVE Repeat(_, _)
Repeat(x, r) == IF r = 0 THEN <<>> ELSE x \o Repeat(x, r - 1)

\* x[:k] on the rows.
Slice(x, k) == SubSeq(x, 1, Min(Len(x), k))

\* torch.cat([rep_gen_seqs[:, :n]] + ro_seqs, -1), row by row.
FullRo(rep, n, ro_seqs) ==
    [row \in 1..Len(rep) |->
        SubSeq(rep[row], 1, n) \o [k \in 1..Len(ro_seqs) |-> ro_seqs[k][row]]]

RECURSIVE SumOver(_, _)
SumOver(f, S) ==
    IF S = {} THEN 0 ELSE LET x == CHOOSE y \in S : TRUE IN f[x] + SumOver(f, S \ {x})

\* self.d(full_ro).view(num_rollouts, -1, 2).mean(0)[:, LABEL_REAL]
MeanOverRollouts(full_ro, R, B) ==
    [b \in 1..B |->
        SumOver([r \in 0..(R - 1) |-> DLogReal(full_ro[r * B + b])], 0..(R - 1))
            \div R]

\* A faulty variant: qs[n] in place of qs[n-1].
WritePosNext(n) == n + 1

\* qs[n-1] of line 258, counting positions from 1.
WritePos(n) == n

\* range(1, seqlen) of line 246.
RolloutRange(T) == 1..(T - 1)

\* qs.data.exp_(); qs.t(): N rows of T rewards.
ExpT(qs, T, B) == [b \in 1..B |-> [t \in 1..T |-> Exp(qs[t][b])]]

\* advs -= advs.mean(); advs /= advs.std() (lines 270-271), exactly: with N
\* entries of sum S, entry q becomes (N*q - S) / sqrt(ss / dof), ss the sum of
\* the squares of the N*q - S and dof = N - 1; nan when ss or dof is 0.
Normalize(out, T, B) ==
    LET N == T * B
        cells == (1..B) \X (1..T)
        S == SumOver([c \in cells |-> out[c[1]][c[2]]], cells)
        num == [b \in 1..B |-> [t \in 1..T |-> N * out[b][t] - S]]
        ss == SumOver([c \in cells |-> num[c[1]][c[2]] * num[c[1]][c[2]]], cells)
    IN [num |-> num, ss |-> ss, dof |-> N - 1, nan |-> (ss = 0 \/ N = 1)]

GqInputs ==
    UNION {UNION {
        [pc : {"get_advantages"}, status : {"running"},
         batch_size : {B}, seqlen : {T}, num_rollouts : 0..MaxRollouts,
         rng : 0..MaxRng,
         gen_seqs : [1..B -> [1..T -> Vocab]]]
        : T \in 1..MaxSeqLen} : B \in 1..MaxBatch}

GqFail(e) == gq' = [gq EXCEPT !.pc = "raised", !.status = e]

\* rep_gen_seqs = gen_seqs.repeat(num_rollouts, 1) and the head of _get_qs
\* (lines 264, 234-235).
GetAdvantages ==
    /\ gq.pc = "get_advantages"
    /\ gq' = [batch_size |-> gq.batch_size, seqlen |-> gq.seqlen,
              num_rollouts |-> gq.num_rollouts, rng |-> gq.rng,
              gen_seqs |-> gq.gen_seqs,
              pc |-> "qs_last", status |-> "running",
              rep_gen_seqs |-> Repeat(gq.gen_seqs, gq.num_rollouts),
              qs |-> [t \in 1..gq.seqlen |-> [b \in 1..gq.batch_size |-> 0]],
              writes |-> [t \in 1..gq.seqlen |-> 0],
              n |-> 0, ro_rng |-> 0, rollouts |-> 0, full_ro |-> <<>>,
              out |-> <<>>, advs |-> <<>>]
    /\ UNCHANGED <<envVars, orc, tacc, dsit>>

\* qs[-1] = self.d(rep_gen_seqs[:qs.size(1)])[:, LABEL_REAL] (line 237).
QsLast ==
    /\ gq.pc = "qs_last"
    /\ LET T == gq.seqlen
           B == gq.batch_size
           rows == Slice(gq.rep_gen_seqs, B)
           src == [k \in 1..Len(rows) |-> DLogReal(rows[k])]
       IN IF AssignOk(B, Len(src))
          THEN gq' = [gq EXCEPT
                        !.pc = "branch",
                        !.qs[T] = [b \in 1..B |-> IF Len(src) = B THEN src[b] ELSE src[1]],
                        !.writes[T] = @ + 1]
          ELSE GqFail("RuntimeError")
    /\ UNCHANGED <<envVars, orc, tacc, dsit>>

\* Lines 239-245: the broadcast and return when num_rollouts is 0, else the
\* random state and hidden state the rollouts start from.
QsBranch ==
    /\ gq.pc = "branch"
    /\ LET T == gq.seqlen
           B == gq.batch_size
       IN IF gq.num_rollouts = 0
          THEN LET qs2 == [t \in 1..T |-> gq.qs[T]]
               IN gq' = [gq EXCEPT
                           !.pc = "normalize",
                           !.qs = qs2,
                           !.writes = [t \in 1..T |-> IF t < T THEN @[t] + 1 ELSE @[t]],
                           !.out = ExpT(qs2, T, B)]
          ELSE gq' = [gq EXCEPT !.pc = "rollout", !.n = 1, !.ro_rng = gq.rng]
    /\ UNCHANGED <<envVars, orc, tacc, dsit>>

\* One round of the loop of lines 246-258.
QsRollout ==
    /\ gq.pc = "rollout"
    /\ gq.n \in RolloutRange(gq.seqlen)
    /\ LET T == gq.seqlen
           B == gq.batch_size
           R == gq.num_rollouts
           ro == Rollout(gq.ro_rng, Len(gq.rep_gen_seqs), T - gq.n)
           full_ro == FullRo(gq.rep_gen_seqs, gq.n, ro.ro_seqs)
       IN IF \E row \in 1..Len(full_ro) : Len(full_ro[row]) # T
          THEN GqFail("AssertionError")
          ELSE gq' = [gq EXCEPT
                        !.qs[WritePos(gq.n)] = MeanOverRollouts(full_ro, R, B),
                        !.writes[WritePos(gq.n)] = @ + 1,
                        !.full_ro = full_ro,
                        !.rollouts = @ + 1,
                        !.ro_rng = ro.ro_rng,
                        !.n = gq.n + 1]
    /\ UNCHANGED <<envVars, orc, tacc, dsit>>

\* qs.data.exp_(); return qs.t().detach() (lines 260-261).
QsReturn ==
    /\ gq.pc = "rollout"
    /\ gq.n \notin RolloutRange(gq.seqlen)
    /\ gq' = [gq EXCEPT !.pc = "normalize",
                        !.out = ExpT(gq.qs, gq.seqlen, gq.batch_size)]
    /\ UNCHANGED <<envVars, orc, tacc, dsit>>

\* Lines 267-272.
GqNormalize ==
    /\ gq.pc = "normalize"
    /\ gq' = [gq EXCEPT !.pc = "returned", !.status = "returned",
                        !.advs = Normalize(gq.out, gq.seqlen, gq.batch_size)]
    /\ UNCHANGED <<envVars, orc, tacc, dsit>>

InitQs ==
    /\ opts = [batch_size |-> 1, grad_reg |-> 0, num_rollouts |-> 0, adv_g_iters |-> 0]
    /\ EnvIdle
    /\ gq \in GqInputs
    /\ orc = Idle /\ tacc = Idle /\ dsit = Idle

NextQs == GetAdvantages \/ QsLast \/ QsBranch \/ QsRollout \/ QsReturn \/ GqNormalize

SpecQs == InitQs /\ [][NextQs]_vars

\* C3: with num_rollouts = 0 the reward matrix _get_advantages obtains from
\* _get_qs is produced, without any rollout, and every timestep of every
\* sequence holds the discriminator's REAL probability of that sequence.
C3_ZeroRolloutsBroadcast ==
    (gq.num_rollouts = 0 /\ gq.pc \in {"raised", "normalize", "returned"}) =>
        /\ gq.status \notin Errors
        /\ gq.rollouts = 0
        /\ \A b \in 1..gq.batch_size : \A t \in 1..gq.seqlen :
              gq.out[b][t] = Exp(DLogReal(gq.gen_seqs[b]))

----------------------------------------------------------------------------
(* __init__ and _create_oracle *)

\* The attributes of the options namespace that the oracle's construction
\* names; the namespace holds more, which nothing here reads.
OptKeys == {"seed", "rnn_dim", "oracle_dim", "oracle_type", "seqlen", "batch_size"}

\* common.rand_state(torch, seed): the random state inside the block.
Seeded(seed) == seed % RngMod

\* nn.init.normal(param, std=1) for each of the oracle's parameters, drawn in
\* turn from random state r; the oracle has one parameter per unit of rnn_dim.
InitParams(r, dim) == [j \in 1..dim |-> RngAfter(r, j)]

\* _create_oracle on a namespace with attributes `keys`: opt_vars is the
\* namespace's own dictionary, so opt_vars.pop('rnn_dim') (line 77) removes the
\* attribute and raises KeyError when it is gone. The result, the namespace
\* after it, and the global random state once the rand_state block is left.
CreateOracle(keys, seed, oracle_dim, rng) ==
    IF "rnn_dim" \notin keys
    THEN [status |-> "KeyError", params |-> <<>>, keys |-> keys, rng |-> rng]
    ELSE [status |-> "ok",
          params |-> InitParams(Seeded(seed), oracle_dim),
          keys |-> keys \ {"rnn_dim"},
          rng |-> rng]

OrcInputs ==
    [pc : {"parsed"}, keys : {OptKeys}, seed : 0..MaxSeed, oracle_dim : 1..MaxDim,
     rng : 0..(RngMod - 1), calls : {<<>>}]

OrcCall(next_pc) ==
    LET r == CreateOracle(orc.keys, orc.seed, orc.oracle_dim, orc.rng) IN
    orc' = [orc EXCEPT !.pc = next_pc,
                       !.keys = r.keys,
                       !.rng = r.rng,
                       !.calls = Append(@, [status |-> r.status, params |-> r.params])]

\* SynthEnvironment(opts): line 59 builds the oracle.
Construct ==
    /\ orc.pc = "parsed"
    /\ Len(orc.calls) < MaxOracleCalls
    /\ OrcCall("ready")
    /\ UNCHANGED <<envVars, gq, tacc, dsit>>

\* _create_oracle invoked again on the environment.
CreateOracleAgain ==
    /\ orc.pc = "ready"
    /\ Len(orc.calls) < MaxOracleCalls
    /\ OrcCall("ready")
    /\ UNCHANGED <<envVars, gq, tacc, dsit>>

\* Any other draw from the global random generator.
DrawRandom ==
    /\ orc.pc = "ready"
    /\ orc' = [orc EXCEPT !.rng = NextRng(@)]
    /\ UNCHANGED <<envVars, gq, tacc, dsit>>

\* A new run: the same option values parsed into a new namespace.
NewRun ==
    /\ orc.pc = "ready"
    /\ \E r \in 0..(RngMod - 1) :
         orc' = [orc EXCEPT !.pc = "parsed", !.keys = OptKeys, !.rng = r]
    /\ UNCHANGED <<envVars, gq, tacc, dsit>>

InitOracle ==
    /\ opts = [batch_size |-> 1, grad_reg |-> 0, num_rollouts |-> 0, adv_g_iters |-> 0]
    /\ EnvIdle
    /\ orc \in OrcInputs
    /\ gq = Idle /\ tacc = Idle /\ dsit = Idle

NextOracle == Construct \/ CreateOracleAgain \/ DrawRandom \/ NewRun

SpecOracle == InitOracle /\ [][NextOracle]_vars

\* C4: for a fixed seed every invocation of _create_oracle with the same
\* options succeeds and yields the parameters the first one yielded, however
\* many invocations came before.
C4_OracleReproducible ==
    \A j \in 1..Len(orc.calls) :
        /\ orc.calls[j].status = "ok"
        /\ orc.calls[j].params = orc.calls[1].params

----------------------------------------------------------------------------
(* _compute_test_acc on its own *)

TaccInputs ==
    [pc : {"call"}, num_samples : 0..MaxSamples, n_init_toks : 1..MaxBatch,
     k : 0..MaxLoader, a : 1..MaxAcc]

\* Lines 120-131 for a loader of k batches, each of accuracy a.
TestAccCall ==
    /\ tacc.pc = "call"
    /\ LET ntb == NumTestBatches(tacc.num_samples, tacc.n_init_toks)
           r == ComputeTestAcc(tacc.k, ntb, tacc.a)
       IN tacc' = [pc |-> "done", num_samples |-> tacc.num_samples,
                   n_init_toks |-> tacc.n_init_toks, k |-> tacc.k, a |-> tacc.a,
                   num_test_batches |-> ntb, status |-> r.status,
                   scored |-> r.scored, acc |-> r.acc, num |-> r.num, den |-> r.den]
    /\ UNCHANGED <<envVars, gq, orc, dsit>>

InitTestAcc ==
    /\ opts = [batch_size |-> 1, grad_reg |-> 0, num_rollouts |-> 0, adv_g_iters |-> 0]
    /\ EnvIdle
    /\ tacc \in TaccInputs
    /\ gq = Idle /\ orc = Idle /\ dsit = Idle

NextTestAcc == TestAccCall

SpecTestAcc == InitTestAcc /\ [][NextTestAcc]_vars

\* C9: with num_test_batches positive, _compute_test_acc does not fail, scores
\* at most num_test_batches oracle batches and returns for the oracle class
\* the summed accuracy divided by the number of batches it scored, whether the
\* loader supplies fewer, as many or more batches than num_test_batches.
C9_OracleAccIsMean ==
    (tacc.pc = "done" /\ tacc.k >= 1) =>
        /\ tacc.status = "ok"
        /\ tacc.scored <= tacc.num_test_batches
        /\ tacc.scored > 0
        /\ tacc.num * tacc.scored = tacc.acc * tacc.den

----------------------------------------------------------------------------
(* _ds_iter *)

Perms(n) == {p \in [1..n -> 1..n] : \A x, y \in 1..n : p[x] = p[y] => x = y}

\* tensor.split(batch_size): consecutive chunks, the last one shorter when
\* batch_size does not divide the length.
RECURSIVE Split(_, _)
Split(p, bs) ==
    IF Len(p) = 0 THEN <<>>
    ELSE IF Len(p) <= bs THEN <<p>>
    ELSE <<SubSeq(p, 1, bs)>> \o Split(SubSeq(p, bs + 1, Len(p)), bs)

\* A faulty variant: the partial batch is kept.
DropLastNever(n, bs) == FALSE

\* `if len(dataset) % batch_size` (line 285).
DropLast(n, bs) == n % bs # 0

\* Lines 284-286 for the permutation p.
BatchIdxs(p, bs) ==
    LET chunks == Split(p, bs) IN
    IF DropLast(Len(p), bs) THEN SubSeq(chunks, 1, Len(chunks) - 1) ELSE chunks

Range(f) == {f[x] : x \in DOMAIN f}

DsitInputs ==
    [pc : {"suspended"}, n : 1..MaxData, batch_size : 1..MaxDsBatch,
     batch_idxs_it : {<<>>}, last : {<<>>}, seen : {{}}, dropped : {{}},
     repeated : {FALSE}, perms : {0}, rng : {0}]

\* The consumer asks for the next item.
DsRequest ==
    /\ dsit.pc = "suspended"
    /\ dsit' = [dsit EXCEPT !.pc = "running"]
    /\ UNCHANGED <<envVars, gq, orc, tacc>>

\* yield dataset[next(batch_idxs_it)] (line 282) when a batch is left.
DsYield ==
    /\ dsit.pc = "running"
    /\ dsit.batch_idxs_it # <<>>
    /\ LET b == Head(dsit.batch_idxs_it) IN
         dsit' = [dsit EXCEPT !.pc = "suspended",
                              !.batch_idxs_it = Tail(@),
                              !.last = b,
                              !.repeated = @ \/ (Range(b) \cap dsit.seen # {})
                                             \/ Cardinality(Range(b)) # Len(b),
                              !.seen = @ \cup Range(b)]
    /\ UNCHANGED <<envVars, gq, orc, tacc>>

\* StopIteration caught: a new permutation (lines 283-287), and the loop goes
\* round. torch.randperm moves the global random generator on.
DsReshuffle ==
    /\ dsit.pc = "running"
    /\ dsit.batch_idxs_it = <<>>
    /\ \E p \in Perms(dsit.n) :
         LET bi == BatchIdxs(p, dsit.batch_size) IN
         dsit' = [dsit EXCEPT !.batch_idxs_it = bi,
                              !.seen = {},
                              !.dropped = Range(p) \ UNION {Range(bi[j]) : j \in 1..Len(bi)},
                              !.perms = Min(@ + 1, 2),
                              !.rng = NextRng(@)]
    /\ UNCHANGED <<envVars, gq, orc, tacc>>

InitIter ==
    /\ opts = [batch_size |-> 1, grad_reg |-> 0, num_rollouts |-> 0, adv_g_iters |-> 0]
    /\ EnvIdle
    /\ dsit \in DsitInputs
    /\ gq = Idle /\ orc = Idle /\ tacc = Idle

NextIter == DsRequest \/ DsYield \/ DsReshuffle

\* The generator's body runs whenever it has been resumed.
SpecIter ==
    InitIter /\ [][NextIter]_vars /\ WF_vars(DsYield) /\ WF_vars(DsReshuffle)

DsSafe ==
    /\ ~dsit.repeated
    /\ dsit.last # <<>> => Len(dsit.last) = dsit.batch_size

\* C10 as stated: for every dataset size >= 1 and batch size >= 1 each request
\* for the next item eventually returns a batch.
C10_EveryRequestReturns == (dsit.pc = "running") ~> (dsit.pc = "suspended")

\* C10 as amended: for every dataset size >= batch_size >= 1 each request
\* eventually returns a batch of exactly batch_size indices; a used-up
\* permutation is reshuffled, the trailing partial batch dropped, the stream
\* never ends, and no index is yielded twice within one permutation.
C10_RequestReturnsWhenABatchFits ==
    /\ []DsSafe
    /\ (dsit.pc = "running" /\ dsit.n >= dsit.batch_size) ~> (dsit.pc = "suspended")

C10_Witness ==
    /\ dsit.pc = "suspended"
    /\ dsit.n = 3 /\ dsit.batch_size = 2
    /\ dsit.perms = 2
    /\ dsit.dropped # {}
    /\ Len(dsit.last) = 2

====
